---- MODULE Spec2Model ----
(***************************************************************************)
(* Model of snigal (src/src/index.ts, lines 1-303): a lazy push-pull       *)
(* reactive graph.  Nodes are Snigal (cell), Computed, Effect and Root.    *)
(* A write marks observers (push), a read or the deferred flush resolves   *)
(* them (pull).  JavaScript Sets are modelled as duplicate-free sequences  *)
(* in insertion order, the microtask queue as a FIFO sequence.             *)
(*                                                                         *)
(* User code is data: a program is a table of nodes, the callback of a     *)
(* node is a list of instructions (get, branch, new, throwIf, onCleanup,   *)
(* set) interpreted by Exec, and a Computed returns a function of the      *)
(* values it read.                                                         *)
(***************************************************************************)
EXTENDS Integers, Sequences, FiniteSets, TLC

\* Bounds of the exploration.
MaxVal == 2
MaxOps == 3

Values == 0 .. MaxVal

\* `undefined`: the PARENT outside every callback, the parent of a top-level node.
NoNode == 0
\* `undefined` as the value of a Computed that never ran.
Undefined == 0 - 1

VARIABLES
  program,            \* the user code: nodes, callbacks, top-level statements
  pc,                 \* index of the next top-level constructor call
  created,            \* node -> the constructor has run
  value,              \* Snigal.value / Computed.value
  flag,               \* ReactiveNode.flag
  dependencies,       \* ReactiveNode.dependencies, insertion order
  observers,          \* ReactiveNode.observers, insertion order
  children,           \* ReactiveNode.children, insertion order
  parent,             \* ReactiveNode.parent
  isDisposed,         \* ReactiveNode.isDisposed
  needsReset,         \* Snigal.needsReset
  onCleanupHandlers,  \* ReactiveNode.onCleanupHandlers, insertion order
  PARENT,             \* the module's PARENT
  shouldTrack,        \* the module's shouldTrack
  EFFECT_QUEUE,       \* the module's EFFECT_QUEUE
  isPending,          \* the module's isPending
  microtasks,         \* the host's microtask queue
  draining,           \* the host is running microtasks (no synchronous code left)
  ops,                \* user operations issued so far
  runs,               \* history: node -> invocations of its callback
  seen,               \* history: node -> values read by the last run of its callback
  glitched,           \* history: nodes whose callback, since this turn began and
                      \*          since a set last changed a value, read a value that
                      \*          differs from the one the current cells give
  cut,                \* history: node -> "set" once a set has changed a cell its
                      \*          callback may read while it was disposed, "ran"
                      \*          once its callback has run after that, else "no"
  handlerRuns,        \* history: cleanup handler -> invocations
  handlerRegs,        \* history: cleanup handler -> registrations on a node
  turnSets,           \* history: the cells whose value a set called by synchronous
                      \*          code changed in this turn, one entry per call
  turnTaskSets,       \* history: the same for the sets called in a microtask
  setRuns0,           \* history: runs when a set last changed a value
  changedSince,       \* history: Computed -> the cells a set has changed since its
                      \*          callback last ran
  tracking,           \* history: for the reads made with a PARENT, whether an
                      \*          untrack call was executing and whether the read
                      \*          added an edge
  gotSince,           \* history: Computeds whose get returned since a set last
                      \*          changed a cell they read
  turnRuns0,          \* history: runs when this turn began
  turnValue0,         \* history: value when this turn began
  last                \* history: what the last step was and what it did; again:
                      \*          its node was in gotSince when the step began

vars == << program, pc, created, value, flag, dependencies, observers, children,
           parent, isDisposed, needsReset, onCleanupHandlers, PARENT, shouldTrack,
           EFFECT_QUEUE, isPending, microtasks, draining, ops, runs, seen,
           glitched, cut, handlerRuns, handlerRegs, turnSets, turnTaskSets,
           setRuns0, changedSince, tracking, gotSince, turnRuns0, turnValue0, last >>

(***************************************************************************)
(* User programs                                                           *)
(***************************************************************************)
Instr(o, x, y) == [op |-> o, a |-> x, b |-> y]
Get(x) == Instr("get", x, 0)
Branch(x, y) == Instr("branch", x, y)
New(m) == Instr("new", m, 0)
ThrowIf(v) == Instr("throwIf", v, 0)
\* onCleanup(() => count(h)), a new closure at every call
OnCleanup(h) == Instr("onCleanup", h, 0)
\* if (first) { first = false; new ... }
NewOnce(m) == Instr("newOnce", m, 0)
\* if (the value read last > 0) x.set(v)
SetIf(x, v) == Instr("setIf", x, v)
\* untrack(() => { ... }): the statements up to the matching EndUntrack
Untrack == Instr("untrack", 0, 0)
EndUntrack == Instr("end", 0, 0)

NodeOf(k, i, body, r, imm) ==
  [kind |-> k, init |-> i, body |-> body, ret |-> r, immediate |-> imm]
Cell(v) == NodeOf("Snigal", v, << >>, "none", FALSE)
Comp(body, r) == NodeOf("Computed", Undefined, body, r, FALSE)
Eff(body) == NodeOf("Effect", Undefined, body, "none", FALSE)
RootOf(body) == NodeOf("Root", Undefined, body, "none", FALSE)
\* new Effect(callback, true)
EffNow(body) == NodeOf("Effect", Undefined, body, "none", TRUE)

\* c = new Snigal(1); d = new Computed(() => c.get() * 2);
\* new Root(() => new Effect(() => log(d.get())))
ProgChain ==
  [name |-> "chain",
   nodes |-> << Cell(1), Comp(<< Get(1) >>, "double"), RootOf(<< New(4) >>),
                Eff(<< Get(2) >>) >>,
   top |-> << 1, 2, 3 >>, handlers |-> 0]

\* a, b cells; new Root(() => new Effect(() => { a.get(); b.get() }))
ProgBatch ==
  [name |-> "batch",
   nodes |-> << Cell(0), Cell(0), RootOf(<< New(4) >>),
                Eff(<< Get(1), Get(2) >>) >>,
   top |-> << 1, 2, 3 >>, handlers |-> 0]

\* c, k cells; d = new Computed(() => c.get() > 0 ? 1 : 0);
\* m = new Computed(() => d.get() * 2);
\* new Root(() => { new Effect(() => m.get()); new Effect(() => { k.get(); d.get() }) })
ProgFilter ==
  [name |-> "filter",
   nodes |-> << Cell(1), Cell(0), Comp(<< Get(1) >>, "positive"),
                Comp(<< Get(3) >>, "double"), RootOf(<< New(6), New(7) >>),
                Eff(<< Get(4) >>), Eff(<< Get(2), Get(3) >>) >>,
   top |-> << 1, 2, 3, 4, 5 >>, handlers |-> 0]

\* c cell; d1 = new Computed(() => c.get() + 1); d2 = new Computed(() => c.get() * 2);
\* d3 = new Computed(() => d1.get() + d2.get()); new Root(() => new Effect(() => d3.get()))
ProgDiamond ==
  [name |-> "diamond",
   nodes |-> << Cell(0), Comp(<< Get(1) >>, "succ"), Comp(<< Get(1) >>, "double"),
                Comp(<< Get(2), Get(3) >>, "sum"), RootOf(<< New(6) >>),
                Eff(<< Get(4) >>) >>,
   top |-> << 1, 2, 3, 4, 5 >>, handlers |-> 0]

\* sel, a, b cells; d = new Computed(() => sel.get() > 0 ? a.get() : b.get());
\* new Root(() => new Effect(() => d.get()))
ProgBranch ==
  [name |-> "branch",
   nodes |-> << Cell(1), Cell(0), Cell(0), Comp(<< Get(1), Branch(2, 3) >>, "last"),
                RootOf(<< New(6) >>), Eff(<< Get(4) >>) >>,
   top |-> << 1, 2, 3, 4, 5 >>, handlers |-> 0]

\* c cell; d = new Computed(() => { if (c.get() === 2) throw 0; return c.get() * 2 });
\* new Root(() => { new Effect(() => d.get());
\*                  new Effect(() => { if (c.get() === 1) throw 0 }) })
ProgThrow ==
  [name |-> "throw",
   nodes |-> << Cell(0), Comp(<< Get(1), ThrowIf(2) >>, "double"),
                RootOf(<< New(4), New(5) >>), Eff(<< Get(2) >>),
                Eff(<< Get(1), ThrowIf(1) >>) >>,
   top |-> << 1, 2, 3 >>, handlers |-> 0]

\* a, b, c cells; new Root(() => {
\*   new Effect(() => { untrack(() => { untrack(() => a.get()); b.get() }); c.get() })
\*   new Effect(() => { untrack(() => { if (c.get() === 1) throw 0 }); a.get() }) })
ProgUntrack ==
  [name |-> "untrack",
   nodes |-> << Cell(0), Cell(0), Cell(0), RootOf(<< New(5), New(6) >>),
                Eff(<< Untrack, Untrack, Get(1), EndUntrack, Get(2), EndUntrack,
                       Get(3) >>),
                Eff(<< Untrack, Get(3), ThrowIf(1), EndUntrack, Get(1) >>) >>,
   top |-> << 1, 2, 3, 4 >>, handlers |-> 0]

\* c cell; d = new Computed(() => c.get() * 2);
\* new Root(() => { new Effect(() => d.get(), true); new Effect(() => c.get()) })
ProgImmediate ==
  [name |-> "immediate",
   nodes |-> << Cell(0), Comp(<< Get(1) >>, "double"),
                RootOf(<< New(4), New(5) >>), EffNow(<< Get(2) >>),
                Eff(<< Get(1) >>) >>,
   top |-> << 1, 2, 3 >>, handlers |-> 0]

\* c cell; new Root(() => { c.get(); new Effect(() => log(c.get())) })
ProgRootRead ==
  [name |-> "rootRead",
   nodes |-> << Cell(0), RootOf(<< Get(1), New(3) >>), Eff(<< Get(1) >>) >>,
   top |-> << 1, 2 >>, handlers |-> 0]

\* c cell; new Root(() => { new Effect(() => { if (c.get() === 1) throw 0 });
\*                         new Effect(() => log(c.get())) })
ProgSwallow ==
  [name |-> "swallow",
   nodes |-> << Cell(0), RootOf(<< New(3), New(4) >>),
                Eff(<< Get(1), ThrowIf(1) >>), Eff(<< Get(1) >>) >>,
   top |-> << 1, 2 >>, handlers |-> 0]

\* c cell; d = new Computed(() => { onCleanup(h1); return c.get() * 2 });
\* new Root(() => { onCleanup(h2);
\*   new Effect(() => { c.get(); onCleanup(h3);
\*     if (first) { first = false; new Effect(() => { c.get(); onCleanup(h4) }) } }) })
ProgCleanup ==
  [name |-> "cleanup",
   nodes |-> << Cell(0), Comp(<< OnCleanup(1), Get(1) >>, "double"),
                RootOf(<< OnCleanup(2), New(4) >>),
                Eff(<< Get(1), OnCleanup(3), NewOnce(5) >>),
                Eff(<< Get(1), OnCleanup(4) >>) >>,
   top |-> << 1, 2, 3 >>, handlers |-> 4]

\* x, y cells; new Root(() => { new Effect(() => log(y.get()));
\*                              new Effect(() => { if (x.get() > 0) y.set(1) }) })
ProgWriter ==
  [name |-> "writer",
   nodes |-> << Cell(0), Cell(0), RootOf(<< New(4), New(5) >>),
                Eff(<< Get(2) >>), Eff(<< Get(1), SetIf(2, 1) >>) >>,
   top |-> << 1, 2, 3 >>, handlers |-> 0]

(***************************************************************************)
(* The engine.  Every operator takes the engine state s (a record of the   *)
(* variables plus exc, the exception in flight, and ret, the value the     *)
(* last callback returned) and gives the state after the call.             *)
(***************************************************************************)
Node == DOMAIN program.nodes
Kind(n) == program.nodes[n].kind
Range(seq) == {seq[i] : i \in DOMAIN seq}

\* Set.prototype.add / delete on an insertion-ordered set.
SetAdd(seq, x) == IF x \in Range(seq) THEN seq ELSE Append(seq, x)
\* seq without the members of xs, order kept.
RECURSIVE Without(_, _)
Without(seq, xs) ==
  IF seq = << >> THEN << >>
  ELSE IF Head(seq) \in xs THEN Without(Tail(seq), xs)
  ELSE << Head(seq) >> \o Without(Tail(seq), xs)
SetDelete(seq, x) == Without(seq, {x})

Task(t, n, v) == [t |-> t, n |-> n, v |-> v]
queueMicrotask(task, s) == [s EXCEPT !.microtasks = Append(@, task)]

scheduleFlush(s) ==
  IF s.isPending THEN s
  ELSE queueMicrotask(Task("flushQueue", NoNode, 0), [s EXCEPT !.isPending = TRUE])

\* An addObserver that records the edge on the observed node only.
addObserverOneSide(n, s) ==
  IF ~s.shouldTrack THEN s
  ELSE IF s.PARENT = NoNode THEN s
  ELSE [s EXCEPT !.observers[n] = SetAdd(@, s.PARENT)]

addObserver(n, s) ==
  IF ~s.shouldTrack THEN s
  ELSE IF s.PARENT = NoNode THEN s
  ELSE [s EXCEPT !.observers[n] = SetAdd(@, s.PARENT),
                 !.dependencies[s.PARENT] = SetAdd(@, n)]

\* this.dependencies.forEach(dependency => dependency.observers.delete(this))
RECURSIVE unobserve(_, _, _, _)
unobserve(n, ds, i, s) ==
  IF i > Len(ds) THEN s
  ELSE unobserve(n, ds, i + 1, [s EXCEPT !.observers[ds[i]] = SetDelete(@, n)])

cleanupDependencies(n, s) ==
  [unobserve(n, s.dependencies[n], 1, s) EXCEPT !.dependencies[n] = << >>]

\* this.observers.forEach(observer => observer.dependencies.delete(this))
RECURSIVE undepend(_, _, _, _)
undepend(n, os, i, s) ==
  IF i > Len(os) THEN s
  ELSE undepend(n, os, i + 1, [s EXCEPT !.dependencies[os[i]] = SetDelete(@, n)])

cleanupObservers(n, s) ==
  [undepend(n, s.observers[n], 1, s) EXCEPT !.observers[n] = << >>]

\* onCleanupHandlers.forEach(cleanup => cleanup()): a handler only counts its calls.
RECURSIVE runHandlers(_, _, _)
runHandlers(hs, i, s) ==
  IF i > Len(hs) THEN s
  ELSE runHandlers(hs, i + 1, [s EXCEPT !.handlerRuns[hs[i]] = @ + 1])

RECURSIVE dispose(_, _)
RECURSIVE disposeChildren(_, _, _)
disposeChildren(cs, i, s) ==
  IF i > Len(cs) THEN s ELSE disposeChildren(cs, i + 1, dispose(cs[i], s))

\* this.children.forEach(child => child.dispose()); this.children.clear()
cleanupChildren(n, s) ==
  [disposeChildren(s.children[n], 1, s) EXCEPT !.children[n] = << >>]

\* A cleanup that leaves the handlers it has called in onCleanupHandlers.
cleanupKeep(n, s) ==
  cleanupChildren(n, runHandlers(s.onCleanupHandlers[n], 1, s))

cleanup(n, s) ==
  cleanupChildren(n, [runHandlers(s.onCleanupHandlers[n], 1, s)
                        EXCEPT !.onCleanupHandlers[n] = << >>])

dispose(n, s) ==
  cleanup(n, cleanupObservers(n, cleanupDependencies(n, [s EXCEPT !.isDisposed[n] = TRUE])))

\* observer.flag = 'update', and an Effect is queued for the flush.
marked(observer, s) ==
  IF Kind(observer) = "Effect"
  THEN scheduleFlush([s EXCEPT !.flag[observer] = "update",
                               !.EFFECT_QUEUE = Append(@, observer)])
  ELSE [s EXCEPT !.flag[observer] = "update"]

RECURSIVE markObservers(_, _)
RECURSIVE markLoop(_, _, _)
\* A markObservers loop that marks an observer whatever its flag is.
RECURSIVE markLoopAll(_, _, _)
markLoopAll(obs, i, s) ==
  IF i > Len(obs) THEN s
  ELSE IF Kind(obs[i]) = "Snigal" THEN markLoopAll(obs, i + 1, s)
  ELSE markLoopAll(obs, i + 1, markObservers(obs[i], marked(obs[i], s)))

markLoop(obs, i, s) ==
  IF i > Len(obs) THEN s
  ELSE IF Kind(obs[i]) = "Snigal" THEN markLoop(obs, i + 1, s)
  ELSE IF s.flag[obs[i]] # "clean" THEN markLoop(obs, i + 1, s)
  ELSE markLoop(obs, i + 1, markObservers(obs[i], marked(obs[i], s)))

markObservers(n, s) == markLoop(s.observers[n], 1, s)

reset(n, s) == [s EXCEPT !.flag[n] = "clean"]

\* The cells the callback of n may read, itself or through the Computeds it reads.
RECURSIVE Cells(_)
Cells(n) ==
  IF Kind(n) = "Snigal" THEN {n}
  ELSE UNION {Cells(program.nodes[n].body[i].a) \cup
              (IF program.nodes[n].body[i].op = "branch"
               THEN Cells(program.nodes[n].body[i].b) ELSE {})
              : i \in {j \in DOMAIN program.nodes[n].body :
                         program.nodes[n].body[j].op \in {"get", "branch"}}}

\* cut after a set that changed cell n.
Severed(n, s) ==
  [m \in Node |-> IF s.isDisposed[m] /\ n \in Cells(m) /\ s.cut[m] = "no"
                  THEN "set" ELSE s.cut[m]]

\* changedSince after a set that changed cell n.
Changed(n, s) ==
  [m \in Node |-> IF Kind(m) = "Computed" THEN s.changedSince[m] \cup {n} ELSE {}]

\* History: a read with a PARENT, inside or outside untrack, adds an edge or not.
traced(s) ==
  IF s.PARENT = NoNode THEN s
  ELSE [s EXCEPT !.tracking = @ \cup {[inside |-> s.untracking > 0,
                                       added |-> s.shouldTrack]}]

SnigalGet(n, s) == addObserver(n, traced(s))

\* A Snigal.set that marks the observers whatever the value is.
SnigalSetAlways(n, v, s) ==
  markObservers(n, [s EXCEPT !.value[n] = v, !.needsReset[n] = TRUE,
                             !.flag[n] = "dirty"])

SnigalSet(n, v, s) ==
  IF v # s.value[n]
  THEN markObservers(n, [s EXCEPT !.value[n] = v, !.needsReset[n] = TRUE,
                                  !.flag[n] = "dirty",
                                  !.turnSets = IF s.inTask THEN @ ELSE Append(@, n),
                                  !.turnTaskSets = IF s.inTask THEN Append(@, n) ELSE @,
                                  !.setRuns0 = s.runs, !.glitched = {},
                                  !.gotSince = {m \in @ : n \notin Cells(m)},
                                  !.cut = Severed(n, s),
                                  !.changedSince = Changed(n, s)])
  ELSE [s EXCEPT !.value[n] = v]

SnigalUpdate(n, s) ==
  IF s.needsReset[n]
  THEN queueMicrotask(Task("reset", n, 0), [s EXCEPT !.needsReset[n] = FALSE])
  ELSE s

\* What a Computed's callback returns, from the values it read.
Ret(n, acc) ==
  IF program.nodes[n].ret = "double" THEN acc[1] * 2
  ELSE IF program.nodes[n].ret = "succ" THEN acc[1] + 1
  ELSE IF program.nodes[n].ret = "sum" THEN acc[1] + acc[2]
  ELSE IF program.nodes[n].ret = "positive" THEN (IF acc[1] > 0 THEN 1 ELSE 0)
  ELSE IF program.nodes[n].ret = "last" THEN acc[Len(acc)]
  ELSE Undefined

\* The node a get or branch instruction reads, given the values read so far.
Target(ins, acc) ==
  IF ins.op = "get" THEN ins.a
  ELSE IF acc[Len(acc)] > 0 THEN ins.a ELSE ins.b

\* The value the callbacks give on the current values of the cells, with no caching.
RECURSIVE TrueVal(_, _)
RECURSIVE TrueAcc(_, _, _, _)
TrueAcc(n, i, acc, s) ==
  IF i > Len(program.nodes[n].body) THEN acc
  ELSE IF program.nodes[n].body[i].op \in {"get", "branch"}
  THEN TrueAcc(n, i + 1,
               Append(acc, TrueVal(Target(program.nodes[n].body[i], acc), s)), s)
  ELSE TrueAcc(n, i + 1, acc, s)
TrueVal(n, s) ==
  IF Kind(n) = "Snigal" THEN s.value[n] ELSE Ret(n, TrueAcc(n, 1, << >>, s))

\* History: callback n has just read x; note a value the cells do not give.
noted(n, x, s) ==
  IF ~s.exc /\ s.value[x] # TrueVal(x, s)
  THEN [s EXCEPT !.glitched = @ \cup {n}] ELSE s

RECURSIVE resolve(_, _)
RECURSIVE resolveLoop(_, _, _, _)
RECURSIVE resolveNext(_, _, _, _, _)
RECURSIVE resolved(_, _)
RECURSIVE ComputedUpdate(_, _)
RECURSIVE EffectUpdate(_, _)
RECURSIVE ComputedGet(_, _)
RECURSIVE construct(_, _)
RECURSIVE Exec(_, _, _, _)
RECURSIVE ExecRead(_, _, _, _, _)

\* The untrack calls of callback n that are executing at its statement i.
UntrackDepth(n, i) ==
  Cardinality({j \in 1 .. i : program.nodes[n].body[j].op = "untrack"})
    - Cardinality({j \in 1 .. i : program.nodes[n].body[j].op = "end"})

\* An exception leaves statement i of callback n: the finally block of every
\* untrack call around it sets shouldTrack = true.
Unwind(n, i, s) ==
  IF UntrackDepth(n, i) > 0
  THEN [s EXCEPT !.shouldTrack = TRUE, !.untracking = @ - UntrackDepth(n, i)]
  ELSE s

\* n.get() called by a callback
read(x, s) == IF Kind(x) = "Snigal" THEN SnigalGet(x, s) ELSE ComputedGet(x, s)

\* this.callback(): the instructions of the callback, in order, until one throws.
Exec(n, i, acc, s) ==
  IF s.exc THEN Unwind(n, i - 1, s)
  ELSE IF i > Len(program.nodes[n].body)
  THEN [s EXCEPT !.ret = Ret(n, acc), !.seen[n] = acc]
  ELSE IF program.nodes[n].body[i].op \in {"get", "branch"}
  THEN ExecRead(n, i, acc, Target(program.nodes[n].body[i], acc),
                read(Target(program.nodes[n].body[i], acc), s))
  ELSE IF program.nodes[n].body[i].op = "new"
  THEN Exec(n, i + 1, acc, construct(program.nodes[n].body[i].a, s))
  ELSE IF program.nodes[n].body[i].op = "newOnce"
  THEN Exec(n, i + 1, acc,
            IF s.created[program.nodes[n].body[i].a] THEN s
            ELSE construct(program.nodes[n].body[i].a, s))
  ELSE IF program.nodes[n].body[i].op = "throwIf"
  THEN (IF acc[Len(acc)] = program.nodes[n].body[i].a
        THEN Unwind(n, i, [s EXCEPT !.exc = TRUE, !.seen[n] = acc])
        ELSE Exec(n, i + 1, acc, s))
  ELSE IF program.nodes[n].body[i].op = "onCleanup"
  THEN Exec(n, i + 1, acc,
            IF s.PARENT = NoNode THEN s
            ELSE [s EXCEPT !.onCleanupHandlers[s.PARENT] =
                             Append(@, program.nodes[n].body[i].a),
                           !.handlerRegs[program.nodes[n].body[i].a] = @ + 1])
  ELSE IF program.nodes[n].body[i].op = "untrack"
  THEN Exec(n, i + 1, acc, [s EXCEPT !.shouldTrack = FALSE, !.untracking = @ + 1])
  ELSE IF program.nodes[n].body[i].op = "end"
  THEN Exec(n, i + 1, acc, [s EXCEPT !.shouldTrack = TRUE, !.untracking = @ - 1])
  ELSE IF program.nodes[n].body[i].op = "setIf"
  THEN Exec(n, i + 1, acc,
            IF acc[Len(acc)] > 0
            THEN SnigalSet(program.nodes[n].body[i].a, program.nodes[n].body[i].b, s)
            ELSE s)
  ELSE IF program.nodes[n].body[i].op = "set"
  THEN Exec(n, i + 1, acc,
            SnigalSet(program.nodes[n].body[i].a, program.nodes[n].body[i].b, s))
  ELSE Exec(n, i + 1, acc, s)

\* The callback goes on with the value x.get() returned.
ExecRead(n, i, acc, x, s) ==
  IF s.exc THEN Unwind(n, i, s) ELSE Exec(n, i + 1, Append(acc, s.value[x]), noted(n, x, s))

callback(n, s) ==
  Exec(n, 1, << >>,
       [s EXCEPT !.runs[n] = @ + 1,
                 !.cut[n] = IF @ = "set" THEN "ran" ELSE @,
                 !.changedSince[n] = {}])

\* Computed.update after this.callback() returned or threw: the assignments
\* of the try block when it returned, then the finally block.
ComputedUpdated(n, previous, previousValue, s) ==
  queueMicrotask(Task("reset", n, 0),
    IF s.exc THEN [s EXCEPT !.PARENT = previous]
    ELSE [s EXCEPT !.value[n] = s.ret,
                   !.flag[n] = IF previousValue # s.ret THEN "dirty" ELSE "clean",
                   !.PARENT = previous])

\* A Computed.update that keeps the dependencies of the earlier runs.
ComputedUpdateKeep(n, s) ==
  IF s.flag[n] # "update" THEN s
  ELSE ComputedUpdated(n, s.PARENT, s.value[n],
         callback(n, cleanup(n, [s EXCEPT !.PARENT = n])))

ComputedUpdate(n, s) ==
  IF s.flag[n] # "update" THEN s
  ELSE ComputedUpdated(n, s.PARENT, s.value[n],
         callback(n, cleanup(n, cleanupDependencies(n, [s EXCEPT !.PARENT = n]))))

\* Computed.get after the update it may have called
ComputedGot(n, s) ==
  IF s.exc THEN s ELSE addObserver(n, traced([s EXCEPT !.gotSince = @ \cup {n}]))

\* A Computed.get that calls the callback whatever the flag is.
ComputedGetAlways(n, s) ==
  ComputedGot(n, ComputedUpdate(n, [s EXCEPT !.flag[n] = "update"]))

ComputedGet(n, s) ==
  ComputedGot(n, IF s.flag[n] = "update" THEN ComputedUpdate(n, s) ELSE s)

\* The finally block of Effect.update: its return discards the exception.
\* A finally block of Effect.update without the return.
EffectUpdatedRethrow(n, previous, s) ==
  [s EXCEPT !.PARENT = previous, !.flag[n] = "clean"]

EffectUpdated(n, previous, s) ==
  [s EXCEPT !.PARENT = previous, !.flag[n] = "clean", !.exc = FALSE]

\* An Effect.update that does not test isDisposed.
EffectUpdateDisposed(n, s) ==
  IF s.parent[n] # NoNode /\ s.flag[s.parent[n]] # "clean" THEN s
  ELSE EffectUpdated(n, s.PARENT, callback(n, cleanup(n, cleanupObservers(n,
           cleanupDependencies(n, [s EXCEPT !.PARENT = n])))))

EffectUpdate(n, s) ==
  IF s.isDisposed[n] THEN s
  ELSE IF s.parent[n] # NoNode /\ s.flag[s.parent[n]] # "clean" THEN s
  ELSE EffectUpdated(n, s.PARENT,
         callback(n, cleanup(n, cleanupObservers(n,
           cleanupDependencies(n, [s EXCEPT !.PARENT = n])))))

RootUpdate(n, s) == [s EXCEPT !.exc = TRUE]

update(n, s) ==
  IF Kind(n) = "Snigal" THEN SnigalUpdate(n, s)
  ELSE IF Kind(n) = "Computed" THEN ComputedUpdate(n, s)
  ELSE IF Kind(n) = "Effect" THEN EffectUpdate(n, s)
  ELSE RootUpdate(n, s)

\* this.dependencies.forEach(...): a Set is iterated live, in insertion order.
resolveLoop(n, visited, shouldUpdate, s) ==
  IF s.exc \/ Without(s.dependencies[n], visited) = << >>
  THEN [s |-> s, shouldUpdate |-> shouldUpdate]
  ELSE IF s.flag[Head(Without(s.dependencies[n], visited))] = "clean"
  THEN resolveLoop(n, visited \cup {Head(Without(s.dependencies[n], visited))},
                   shouldUpdate, s)
  ELSE resolveNext(n, visited, shouldUpdate, Head(Without(s.dependencies[n], visited)),
                   resolve(Head(Without(s.dependencies[n], visited)), s))

\* after dependency.resolve(): if (dependency.flag === 'dirty') shouldUpdate = true
resolveNext(n, visited, shouldUpdate, dependency, s) ==
  resolveLoop(n, visited \cup {dependency},
              shouldUpdate \/ (~s.exc /\ s.flag[dependency] = "dirty"), s)

\* resolve after the loop over the dependencies
resolved(n, r) ==
  IF r.s.exc THEN r.s
  ELSE IF ~r.shouldUpdate THEN [r.s EXCEPT !.flag[n] = "clean"]
  ELSE update(n, r.s)

resolve(n, s) ==
  IF Kind(n) = "Snigal" THEN update(n, s)
  ELSE resolved(n, resolveLoop(n, {}, FALSE, s))

\* The ReactiveNode constructor
ReactiveNodeNew(n, s) ==
  IF s.PARENT = NoNode THEN [s EXCEPT !.created[n] = TRUE, !.parent[n] = NoNode]
  ELSE [s EXCEPT !.created[n] = TRUE, !.parent[n] = s.PARENT,
                 !.children[s.PARENT] = SetAdd(@, n)]

\* The constructors of the subclasses, after super()
constructed(n, s) ==
  IF Kind(n) = "Snigal" THEN [s EXCEPT !.value[n] = program.nodes[n].init]
  ELSE IF Kind(n) = "Computed" THEN [s EXCEPT !.flag[n] = "update"]
  ELSE IF Kind(n) = "Effect"
  THEN (IF program.nodes[n].immediate THEN EffectUpdate(n, s)
        ELSE queueMicrotask(Task("update", n, 0), s))
  ELSE [Exec(n, 1, << >>, [s EXCEPT !.PARENT = n, !.runs[n] = @ + 1])
          EXCEPT !.PARENT = s.PARENT]

\* new Snigal / Computed / Effect / Root
construct(n, s) == constructed(n, ReactiveNodeNew(n, s))

RECURSIVE flushLoop(_, _, _)
flushLoop(i, len, s) ==
  IF i > len \/ s.exc THEN s
  ELSE flushLoop(i + 1, len, resolve(s.EFFECT_QUEUE[i], s))

\* Array.prototype.forEach visits the indices below the length it found.
flushQueue(s) ==
  [flushLoop(1, Len(s.EFFECT_QUEUE), s) EXCEPT !.EFFECT_QUEUE = << >>,
                                                !.isPending = FALSE]

(***************************************************************************)
(* The state machine: user code calls the public operations from           *)
(* synchronous code or from a microtask of its own, and the host runs the  *)
(* microtask queue in FIFO order once the synchronous code has returned.   *)
(***************************************************************************)
S ==
  [created |-> created, value |-> value, flag |-> flag,
   dependencies |-> dependencies, observers |-> observers, children |-> children,
   parent |-> parent, isDisposed |-> isDisposed, needsReset |-> needsReset,
   onCleanupHandlers |-> onCleanupHandlers, PARENT |-> PARENT,
   shouldTrack |-> shouldTrack, EFFECT_QUEUE |-> EFFECT_QUEUE,
   isPending |-> isPending, microtasks |-> microtasks, runs |-> runs,
   seen |-> seen, glitched |-> glitched, cut |-> cut,
   handlerRuns |-> handlerRuns, handlerRegs |-> handlerRegs, turnSets |-> turnSets,
   turnTaskSets |-> turnTaskSets, turnRuns0 |-> turnRuns0,
   setRuns0 |-> setRuns0, gotSince |-> gotSince, changedSince |-> changedSince,
   tracking |-> tracking,
   turnValue0 |-> turnValue0,
   exc |-> FALSE, ret |-> Undefined, inTask |-> FALSE, untracking |-> 0]

Commit(s) ==
  /\ created' = s.created /\ value' = s.value /\ flag' = s.flag
  /\ dependencies' = s.dependencies /\ observers' = s.observers
  /\ children' = s.children /\ parent' = s.parent
  /\ isDisposed' = s.isDisposed /\ needsReset' = s.needsReset
  /\ onCleanupHandlers' = s.onCleanupHandlers /\ PARENT' = s.PARENT
  /\ shouldTrack' = s.shouldTrack /\ EFFECT_QUEUE' = s.EFFECT_QUEUE
  /\ isPending' = s.isPending /\ microtasks' = s.microtasks
  /\ runs' = s.runs /\ seen' = s.seen /\ glitched' = s.glitched
  /\ cut' = s.cut /\ handlerRuns' = s.handlerRuns /\ handlerRegs' = s.handlerRegs
  /\ turnSets' = s.turnSets /\ turnTaskSets' = s.turnTaskSets
  /\ setRuns0' = s.setRuns0 /\ gotSince' = s.gotSince /\ changedSince' = s.changedSince
  /\ tracking' = s.tracking
  /\ turnRuns0' = s.turnRuns0
  /\ turnValue0' = s.turnValue0

\* Synchronous code that starts with an empty microtask queue starts a turn.
Sync ==
  IF microtasks = << >>
  THEN [S EXCEPT !.turnSets = << >>, !.turnTaskSets = << >>, !.turnRuns0 = runs,
                 !.turnValue0 = value, !.glitched = {}]
  ELSE S

\* The call returns (or throws): the variables take the state it left.
Done(o, n, v, s) ==
  /\ Commit(s)
  /\ last' = [op |-> o, n |-> n, v |-> v, threw |-> s.exc, again |-> n \in gotSince]

InitOf(p) ==
  /\ program = p
  /\ pc = 1
  /\ created = [n \in DOMAIN p.nodes |-> FALSE]
  /\ value = [n \in DOMAIN p.nodes |-> Undefined]
  /\ flag = [n \in DOMAIN p.nodes |-> "clean"]
  /\ dependencies = [n \in DOMAIN p.nodes |-> << >>]
  /\ observers = [n \in DOMAIN p.nodes |-> << >>]
  /\ children = [n \in DOMAIN p.nodes |-> << >>]
  /\ parent = [n \in DOMAIN p.nodes |-> NoNode]
  /\ isDisposed = [n \in DOMAIN p.nodes |-> FALSE]
  /\ needsReset = [n \in DOMAIN p.nodes |-> FALSE]
  /\ onCleanupHandlers = [n \in DOMAIN p.nodes |-> << >>]
  /\ PARENT = NoNode
  /\ shouldTrack = TRUE
  /\ EFFECT_QUEUE = << >>
  /\ isPending = FALSE
  /\ microtasks = << >>
  /\ draining = FALSE
  /\ ops = 0
  /\ runs = [n \in DOMAIN p.nodes |-> 0]
  /\ seen = [n \in DOMAIN p.nodes |-> << >>]
  /\ glitched = {}
  /\ cut = [n \in DOMAIN p.nodes |-> "no"]
  /\ handlerRuns = [h \in 1 .. p.handlers |-> 0]
  /\ handlerRegs = [h \in 1 .. p.handlers |-> 0]
  /\ turnSets = << >>
  /\ turnTaskSets = << >>
  /\ setRuns0 = [n \in DOMAIN p.nodes |-> 0]
  /\ gotSince = {}
  /\ tracking = {}
  /\ changedSince = [n \in DOMAIN p.nodes |-> {}]
  /\ turnRuns0 = [n \in DOMAIN p.nodes |-> 0]
  /\ turnValue0 = [n \in DOMAIN p.nodes |-> Undefined]
  /\ last = [op |-> "init", n |-> NoNode, v |-> 0, threw |-> FALSE, again |-> FALSE]

Programs ==
  {ProgChain, ProgBatch, ProgFilter, ProgDiamond, ProgBranch, ProgThrow, ProgUntrack,
   ProgImmediate, ProgRootRead, ProgSwallow,
   ProgCleanup, ProgWriter}

Init == \E p \in Programs : InitOf(p)

\* The next top-level statement of the program: new Snigal / Computed / Root.
Construct ==
  /\ ~draining
  /\ pc <= Len(program.top)
  /\ Done("new", program.top[pc], 0, construct(program.top[pc], Sync))
  /\ pc' = pc + 1
  /\ UNCHANGED << program, draining, ops >>

Built == pc > Len(program.top)
CanCall == Built /\ ~draining /\ ops < MaxOps

\* A set that resolves the queue before it returns.
UserSetFlush(c, v) ==
  /\ CanCall
  /\ created[c] /\ Kind(c) = "Snigal"
  /\ Done(IF v = value[c] THEN "setSame" ELSE "set", c, v,
          flushQueue(SnigalSet(c, v, Sync)))
  /\ ops' = ops + 1
  /\ UNCHANGED << program, pc, draining >>

\* c.set(v) in synchronous code
UserSet(c, v) ==
  /\ CanCall
  /\ created[c] /\ Kind(c) = "Snigal"
  /\ Done(IF v = value[c] THEN "setSame" ELSE "set", c, v, SnigalSet(c, v, Sync))
  /\ ops' = ops + 1
  /\ UNCHANGED << program, pc, draining >>

\* n.get() in synchronous code, outside every callback
UserGet(n) ==
  /\ CanCall
  /\ created[n] /\ Kind(n) \in {"Snigal", "Computed"}
  /\ Done("get", n, 0, read(n, Sync))
  /\ ops' = ops + 1
  /\ UNCHANGED << program, pc, draining >>

\* n.dispose() in synchronous code
UserDispose(n) ==
  /\ CanCall
  /\ created[n]
  /\ Done("dispose", n, 0, dispose(n, Sync))
  /\ ops' = ops + 1
  /\ UNCHANGED << program, pc, draining >>

\* queueMicrotask(() => c.set(v)) in synchronous code
UserQueueSet(c, v) ==
  /\ CanCall
  /\ created[c] /\ Kind(c) = "Snigal"
  /\ Done("queueSet", c, v, queueMicrotask(Task("userSet", c, v), Sync))
  /\ ops' = ops + 1
  /\ UNCHANGED << program, pc, draining >>

RunTask(task, s) ==
  IF task.t = "flushQueue" THEN flushQueue(s)
  ELSE IF task.t = "reset" THEN reset(task.n, s)
  ELSE IF task.t = "update" THEN EffectUpdate(task.n, s)
  ELSE SnigalSet(task.n, task.v, s)

Ran(task, s) ==
  /\ Done(task.t, task.n, task.v, s)
  /\ draining' = (s.microtasks # << >>)

\* The host runs the oldest microtask.
RunMicrotask ==
  /\ microtasks # << >>
  /\ Ran(Head(microtasks), RunTask(Head(microtasks),
                                 [S EXCEPT !.microtasks = Tail(@), !.inTask = TRUE]))
  /\ UNCHANGED << program, pc, ops >>

Next ==
  \/ Construct
  \/ \E c \in Node, v \in Values : UserSet(c, v)
  \/ \E n \in Node : UserGet(n)
  \/ \E n \in Node : UserDispose(n)
  \/ \E c \in Node, v \in Values : UserQueueSet(c, v)
  \/ RunMicrotask

Spec == Init /\ [][Next]_vars

\* One program at a time.
SpecChain == InitOf(ProgChain) /\ [][Next]_vars
SpecBatch == InitOf(ProgBatch) /\ [][Next]_vars
SpecFilter == InitOf(ProgFilter) /\ [][Next]_vars
SpecDiamond == InitOf(ProgDiamond) /\ [][Next]_vars
SpecBranch == InitOf(ProgBranch) /\ [][Next]_vars
SpecThrow == InitOf(ProgThrow) /\ [][Next]_vars
SpecUntrack == InitOf(ProgUntrack) /\ [][Next]_vars
SpecImmediate == InitOf(ProgImmediate) /\ [][Next]_vars
SpecRootRead == InitOf(ProgRootRead) /\ [][Next]_vars
SpecSwallow == InitOf(ProgSwallow) /\ [][Next]_vars
SpecCleanup == InitOf(ProgCleanup) /\ [][Next]_vars
SpecWriter == InitOf(ProgWriter) /\ [][Next]_vars

\* Only writes, from synchronous code or from a microtask, and the host's steps.
NextWrites ==
  \/ Construct
  \/ \E c \in Node, v \in Values : UserSet(c, v)
  \/ \E c \in Node, v \in Values : UserQueueSet(c, v)
  \/ RunMicrotask

SpecChainWrites == InitOf(ProgChain) /\ [][NextWrites]_vars

Drained == Built /\ microtasks = << >>

TypeOK ==
  /\ \A n \in Node : flag[n] \in {"clean", "update", "dirty"}
  /\ PARENT = NoNode
  /\ \A h \in DOMAIN handlerRuns : handlerRuns[h] \in Nat /\ handlerRegs[h] \in Nat

(***************************************************************************)
(* Properties                                                              *)
(***************************************************************************)
NoDup(seq) == \A i, j \in DOMAIN seq : seq[i] = seq[j] => i = j
\* The flushQueue microtasks that are scheduled and have not run.
Flushes == Cardinality({i \in DOMAIN microtasks : microtasks[i].t = "flushQueue"})
\* The calls of set that changed a value since this turn began.
Sets == Len(turnSets) + Len(turnTaskSets)
NoneDisposed == \A n \in Node : ~isDisposed[n]

\* C1 (chain c -> d -> e): once the microtask queue has drained, the last run
\* of e read d computed from the current value of c, and since the turn began
\* e ran once if this was its first run or if c has another value than at the
\* start of the turn, and not at all otherwise.
C1_ChainRuns ==
  Drained /\ runs[4] > 0 =>
    /\ seen[4] = << 2 * value[1] >>
    /\ runs[4] - turnRuns0[4] =
         IF turnRuns0[4] = 0 \/ value[1] # turnValue0[1] THEN 1 ELSE 0

\* The two cells of the batch program were both changed by synchronous code
\* of this turn and by no microtask, the Effect had run before the turn
\* began, and no node is disposed.
Both ==
  /\ Range(turnSets) = {1, 2} /\ turnTaskSets = << >>
  /\ turnRuns0[4] > 0 /\ NoneDisposed

\* C2 (batch: an Effect reading two cells): while no node is disposed, two
\* sets in one synchronous turn on the two cells put the Effect once on EFFECT_QUEUE and schedule one
\* flushQueue microtask, and once the queue has drained the Effect's callback
\* has run exactly once more; EFFECT_QUEUE never holds a node twice and never
\* more than one flush is outstanding.
C2_Batching ==
  /\ Drained /\ Both => runs[4] = turnRuns0[4] + 1
  /\ Both /\ ~draining /\ microtasks # << >> =>
       EFFECT_QUEUE = << 4 >> /\ Flushes = 1
  /\ NoDup(EFFECT_QUEUE) /\ Flushes <= 1

C2_Witness == Drained /\ Both /\ runs[4] = turnRuns0[4] + 1 /\ last.op = "reset"

\* C3 (filter: d = positive(c), m reads d, one Effect reads m, one reads d
\* and a cell k): when the only write of a turn is one set on c, d was re-run
\* and returned the value it had, then once the queue has drained no Computed
\* or Effect observing d has run since the turn began and their flags are clean.
C3_ChangeFiltering ==
  Drained /\ NoneDisposed /\ turnSets \o turnTaskSets = << 1 >>
          /\ runs[3] > turnRuns0[3] /\ value[3] = turnValue0[3] =>
    \A n \in {4, 6, 7} :
      turnRuns0[n] > 0 => runs[n] = turnRuns0[n] /\ flag[n] = "clean"

\* C4 (diamond: d1 and d2 read c, d3 reads d1 and d2, an Effect reads d3):
\* after a single set that changed c, d3's callback runs at most once and
\* every value it reads from d1 and d2 is the one the current c gives.
C4_GlitchFree ==
  Sets = 1 => runs[4] - setRuns0[4] <= 1 /\ 4 \notin glitched

\* C5 (every program): after every operation has returned or thrown, a node
\* A is in B.dependencies exactly when B is in A.observers.
C5_EdgeSymmetry ==
  \A a, b \in Node : a \in Range(dependencies[b]) <=> b \in Range(observers[a])

\* A Computed.get threw out of the callback after the callback had read a cell.
C5_Witness ==
  /\ program.name = "throw" /\ last.op = "get" /\ last.threw
  /\ dependencies[2] = << 1 >> /\ observers[1] # << >>

\* The disposed Effects and Computeds.
Cut == {n \in Node : Kind(n) \in {"Effect", "Computed"} /\ isDisposed[n]}

\* C6 (filter program): once an Effect or Computed N is disposed, directly or
\* through an ancestor, N is in no node's observers and in no node's
\* dependencies, and N's callback does not run after a later set has changed
\* a cell N reads.
C6_DisposeCuts ==
  \A n \in Cut :
    /\ cut[n] # "ran"
    /\ \A m \in Node : n \notin Range(observers[m]) /\ n \notin Range(dependencies[m])

\* The Effects on EFFECT_QUEUE that were disposed with the Root that owns them.
QueuedCut ==
  {e \in Range(EFFECT_QUEUE) : isDisposed[e] /\ parent[e] # NoNode /\ isDisposed[parent[e]]}

\* C7 (throw program: a Root with two Effects, callbacks that may throw): a
\* deferred first run of an Effect whose Root was disposed before the
\* microtask runs invokes no callback and does not throw; a flush invokes
\* the callback of no queued Effect whose Root was disposed, and when every
\* queued Effect is such, the flush invokes no callback and does not throw.
C7_DisposedInFlight ==
  [][/\ last'.op = "update" /\ isDisposed[last'.n] /\ isDisposed[parent[last'.n]]
          => runs' = runs /\ ~last'.threw
     /\ last'.op = "flushQueue"
          => /\ \A e \in QueuedCut : runs'[e] = runs[e]
             /\ QueuedCut = Range(EFFECT_QUEUE) => runs' = runs /\ ~last'.threw]_vars

\* A flush has run after the Root was disposed: the flush was scheduled when a
\* set marked an Effect, which only a live Effect can be, so the Root was
\* disposed while the Effect was on EFFECT_QUEUE.
C7_Witness ==
  /\ program.name = "throw" /\ last.op = "flushQueue"
  /\ isDisposed[3] /\ isDisposed[4] /\ isDisposed[5]
  /\ runs[4] = turnRuns0[4] /\ ~last.threw

\* The nodes the last run of the branch program's Computed read: sel, then a
\* on the a-branch (sel > 0) and b otherwise.
ReadByLastRun == {1} \cup (IF seen[4][1] > 0 THEN {2} ELSE {3})
\* The cell that is not on the branch the last run took.
OffBranch == IF seen[4][1] > 0 THEN 3 ELSE 2

\* C8 (branch program: a Computed reading a when sel > 0 and b otherwise):
\* while none of the cells and the Computed is disposed, the dependencies of
\* the Computed are exactly the nodes its last run read; a set on the cell off
\* the branch of the last run changes neither the Computed's flag nor
\* EFFECT_QUEUE and runs no callback; and the callback is invoked again only
\* after a set has changed a cell the last run read.
C8_DependencyFreshness ==
  /\ [](runs[4] > 0 /\ (\A n \in 1 .. 4 : ~isDisposed[n])
          => Range(dependencies[4]) = ReadByLastRun)
  /\ [](runs[4] > 0 => Range(dependencies[4]) \subseteq ReadByLastRun)
  /\ [][last'.op \in {"set", "userSet"} /\ runs[4] > 0 /\ last'.n = OffBranch
          => flag'[4] = flag[4] /\ runs' = runs /\ EFFECT_QUEUE' = EFFECT_QUEUE]_vars
  /\ [][runs'[4] > runs[4] /\ runs[4] > 0
          => changedSince[4] \cap ReadByLastRun # {}]_vars

\* The last run took the a-branch, b alone was changed since, and a get of
\* the Computed has returned.
C8_Witness ==
  /\ program.name = "branch" /\ last.op = "get" /\ last.n = 4
  /\ runs[4] > 0 /\ seen[4][1] > 0 /\ changedSince[4] = {3}
  /\ value[3] # 0 /\ Range(dependencies[4]) = {1, 2}

\* C9 (diamond program): a get of a Computed whose get has returned since a
\* set last changed a cell it reads, itself or through other Computeds,
\* invokes no callback; a get that finds the flag "update" and returns
\* invokes the Computed's callback exactly once, and a get that finds another
\* flag invokes no callback.
C9_NoRedundantRecompute ==
  [][last'.op = "get" /\ Kind(last'.n) = "Computed" =>
       /\ last'.n \in gotSince => runs' = runs
       /\ flag[last'.n] = "update" /\ ~last'.threw
            => runs'[last'.n] = runs[last'.n] + 1
       /\ flag[last'.n] # "update" => runs' = runs]_vars

\* d3.get() has been called a second time with no set in between, after the
\* first call had computed d3.
C9_Witness ==
  /\ program.name = "diamond" /\ last.op = "get" /\ last.n = 4 /\ last.again
  /\ runs[4] = 1 /\ runs[6] = 0

\* C10 (batch program): a set with the value the cell holds, called by
\* synchronous code or in a microtask, leaves every value, every flag,
\* needsReset, EFFECT_QUEUE and isPending as they were and schedules no
\* microtask.
C10_SetSameIsNoOp ==
  [][/\ last'.op = "setSame"
          => /\ value' = value /\ flag' = flag /\ needsReset' = needsReset
             /\ EFFECT_QUEUE' = EFFECT_QUEUE /\ isPending' = isPending
             /\ microtasks' = microtasks
     /\ last'.op = "userSet" /\ value[last'.n] = last'.v
          => /\ value' = value /\ flag' = flag /\ needsReset' = needsReset
             /\ EFFECT_QUEUE' = EFFECT_QUEUE /\ isPending' = isPending
             /\ microtasks' = Tail(microtasks)]_vars

\* A set with the stored value was called on a cell an Effect observes.
C10_Witness ==
  /\ program.name = "batch" /\ last.op = "setSame" /\ last.n = 1
  /\ observers[1] = << 4 >> /\ flag[4] = "clean" /\ EFFECT_QUEUE = << >>

\* C11 (untrack program: a nested untrack, an untrack that throws): a read
\* made with a PARENT while an untrack call is executing adds no edge, and a
\* read made with a PARENT while none is executing adds one.
C11_UntrackSuspends ==
  \A r \in tracking : r.inside <=> ~r.added

\* C12 (immediate program: a Computed, an immediate Effect, a deferred
\* Effect): a set, called by synchronous code or in a microtask, invokes no
\* callback; an Effect's callback runs only in the microtask of its deferred
\* first run or of a flush, or in its constructor when immediate is true; a
\* Computed's callback runs only in a step that calls Computed.get or
\* resolves the queue.
C12_SetRunsNothing ==
  [][/\ last'.op \in {"set", "setSame", "userSet", "queueSet"} => runs' = runs
     /\ \A n \in Node :
          runs'[n] > runs[n] /\ Kind(n) = "Effect"
            => \/ last'.op \in {"update", "flushQueue"}
               \/ last'.op = "new" /\ program.nodes[n].immediate
     /\ \A n \in Node :
          runs'[n] > runs[n] /\ Kind(n) = "Computed"
            => last'.op \in {"get", "update", "flushQueue", "new"}]_vars

\* A set has marked the Computed and queued both Effects, and nothing has run.
C12_Witness ==
  /\ program.name = "immediate" /\ last.op = "set"
  /\ flag[2] = "update" /\ Range(EFFECT_QUEUE) = {4, 5}
  /\ runs[4] > 0 /\ runs[5] > 0 /\ runs = turnRuns0

\* C13 (rootRead program: a Root whose callback reads a cell): a Root has no
\* dependencies and no observers, and its flag is clean.
C13_RootOutsideGraph ==
  \A r \in Node :
    Kind(r) = "Root" =>
      dependencies[r] = << >> /\ observers[r] = << >> /\ flag[r] = "clean"

\* The Effects that are not disposed and read cell c.
Readers(c) ==
  {e \in Node : Kind(e) = "Effect" /\ ~isDisposed[e] /\ c \in Range(dependencies[e])}

\* C14 (throw program): when flushQueue has returned or thrown, EFFECT_QUEUE
\* is empty and isPending is false; and from a state with an empty queue and
\* no pending flush, a set that changes a cell an Effect reads schedules a
\* flush.
C14_FlushAlwaysClears ==
  /\ [](last.op = "flushQueue" => EFFECT_QUEUE = << >> /\ ~isPending)
  /\ [][(/\ last'.op \in {"set", "userSet"}
         /\ value'[last'.n] # value[last'.n]
         /\ EFFECT_QUEUE = << >> /\ ~isPending /\ Readers(last'.n) # {})
          => isPending' /\ Flushes' = 1]_vars

\* C15 (swallow program: an Effect that throws when c is 1, queued before an
\* Effect that logs c): no deferred run and no flush throws, and each leaves
\* PARENT undefined; a flush that finds both Effects queued, c dirty with the
\* value 1 and no node disposed runs both callbacks once and leaves both
\* flags clean.
C15_EffectThrowSwallowed ==
  [][/\ last'.op \in {"update", "flushQueue"} => ~last'.threw /\ PARENT' = NoNode
     /\ (/\ last'.op = "flushQueue" /\ EFFECT_QUEUE = << 3, 4 >>
         /\ value[1] = 1 /\ flag[1] = "dirty" /\ NoneDisposed)
          => /\ runs'[3] = runs[3] + 1 /\ runs'[4] = runs[4] + 1
             /\ flag'[3] = "clean" /\ flag'[4] = "clean"
             /\ seen'[3] = << 1 >> /\ seen'[4] = << 1 >>]_vars

\* The flush has run the Effect that throws, then the Effect that follows it.
C15_Witness ==
  /\ program.name = "swallow" /\ last.op = "flushQueue" /\ ~last.threw
  /\ seen[3] = << 1 >> /\ seen[4] = << 1 >>
  /\ runs[3] = turnRuns0[3] + 1 /\ runs[4] = turnRuns0[4] + 1
  /\ flag[3] = "clean" /\ flag[4] = "clean"

\* The nodes that hold a registration of handler h that was not called yet.
Holders(h) == {n \in Node : h \in Range(onCleanupHandlers[n])}
\* Node n begins a run of its callback, or is disposed, in this step.
Cleans(n) ==
  \/ runs'[n] > runs[n]
  \/ isDisposed'[n] /\ ~isDisposed[n]
  \/ last'.op = "dispose" /\ last'.n = n

\* C16: a handler registered by onCleanup while node N was PARENT is called
\* once per registration and never again: the calls of a handler and its
\* registrations still held by a node add up to its registrations, a node
\* holds a registration at most once, and a step calls a held handler exactly
\* when its node begins its next run or is disposed; that step calls every
\* handler the node held, and every child the node had is disposed by it.
C16_CleanupOnce ==
  /\ [](\A h \in DOMAIN handlerRuns :
         /\ handlerRuns[h] + Cardinality(Holders(h)) = handlerRegs[h]
         /\ \A n \in Node : NoDup(onCleanupHandlers[n]))
  /\ [][\A n \in Node :
         /\ (\E h \in Range(onCleanupHandlers[n]) : handlerRuns'[h] > handlerRuns[h])
              => Cleans(n)
         /\ Cleans(n) =>
              /\ \A h \in Range(onCleanupHandlers[n]) :
                    handlerRuns'[h] =
                      handlerRuns[h] + Cardinality({m \in Holders(h) : Cleans(m)})
              /\ \A m \in Range(children[n]) : isDisposed'[m]]_vars

\* The Effect that held a handler and had a child Effect, which held one too,
\* has run again: both handlers were called once more, the child is disposed,
\* and every handler was called once per registration that is not held.
C16_Witness ==
  /\ program.name = "cleanup" /\ last.op = "flushQueue"
  /\ runs[4] = 2 /\ runs[5] = 1 /\ isDisposed[5] /\ ~isDisposed[4]
  /\ handlerRuns[3] = 1 /\ handlerRegs[3] = 2
  /\ handlerRuns[4] = 1 /\ handlerRegs[4] = 1

\* The nodes reached from the nodes of the set ns by following observer edges.
RECURSIVE Downstream(_)
Downstream(ns) ==
  IF \A n \in ns : Range(observers[n]) \subseteq ns THEN ns
  ELSE Downstream(ns \cup UNION {Range(observers[n]) : n \in ns})

\* C17: when a set that changed the value of a cell returns, every Computed
\* and every Effect reached from the cell by following observer edges has a
\* flag other than clean, whatever the flags were before the call.
C17_TransitiveMarking ==
  [][\A c \in Node :
       (last'.op \in {"set", "userSet"} /\ last'.n = c /\ value'[c] # value[c])
         => \A m \in Downstream(Range(observers[c]))' :
              Kind(m) \in {"Computed", "Effect"} => flag'[m] # "clean"]_vars

\* C18 (diamond program): a Computed.get that returns, on a Computed that is
\* not disposed, returns the value the callback gives on the current values
\* of the cells it reads, itself or through other Computeds.
C18_GetIsCurrent ==
  (last.op = "get" /\ Kind(last.n) = "Computed" /\ ~isDisposed[last.n] /\ ~last.threw)
    => value[last.n] = TrueVal(last.n, S)

\* C19: every Effect whose flag is "update", and which is not disposed and
\* has had its first run, is in EFFECT_QUEUE with a flush scheduled: a flush
\* resolves every Effect that was pushed, also one pushed by a set that the
\* callback of an Effect run by that flush called.
C19_QueuedEffectsResolved ==
  \A e \in Node :
    (Kind(e) = "Effect" /\ created[e] /\ ~isDisposed[e] /\ runs[e] > 0
       /\ flag[e] = "update")
      => e \in Range(EFFECT_QUEUE) /\ isPending /\ Flushes = 1

\* C20 (batch program: an Effect reads cells a and b): while the Effect is
\* queued for a flush and no node is disposed, a cell whose value is not the
\* one the Effect's last run read is dirty: no reset microtask has cleaned it
\* between the set that changed it and the flush that resolves the Effect.
C20_ResetAfterFlush ==
  (4 \in Range(EFFECT_QUEUE) /\ runs[4] > 0 /\ NoneDisposed)
    => \A c \in {1, 2} : value[c] # seen[4][c] => flag[c] = "dirty"

====
